---- MODULE Spec2Model ----
(***************************************************************************)
(* Review scraper of go-marble-task: one ReviewScraper (one remote         *)
(* WebDriver session) created by main and shared by every /api/reviews     *)
(* request; each request runs ScrapeReviews -> handlePagination on it.     *)
(* Every blocking driver call is one atomic step of the request that makes *)
(* it, so steps of concurrent requests interleave between driver calls.    *)
(***************************************************************************)
EXTENDS Integers, Sequences, FiniteSets, TLC

\* ------------------------------------------------------------------ bounds
\* Processing cycles the scrapes may start in total (the code has no cap).
MaxCycles == 5

\* The requests that arrive: two, the least number that shows what requests
\* in flight at once (fiber serves each on its own goroutine) do to each
\* other.
Reqs == {1, 2}

\* ------------------------------------------------------- program constants
nextSelectors ==
    << ".pagination-next", "a[rel='next']", "button:contains('Next')",
       ".see-more-button", ".load-more" >>

\* The empty Go string / nil slice, as sequences.
EmptyString == << >>

\* ------------------------------------------------- completion-service reply
\* A reply is a sequence of tokens: free text, brackets, commas, JSON
\* objects (a list of key/value pairs) and JSON numbers.
Tok(k) == [kind |-> k, fields |-> << >>]
Txt == Tok("txt")
LB == Tok("[")
RB == Tok("]")
Comma == Tok(",")
Num == Tok("num")
Obj(fs) == [kind |-> "obj", fields |-> fs]

\* The object the service writes for a review with title t by reviewer u.
ReviewObj(t, u) ==
    Obj(<< <<"title", t>>, <<"body", "text">>, <<"rating", "5 stars">>,
           <<"reviewer", u>> >>)

Review(t, b, s, u) == [title |-> t, body |-> b, rating |-> s, reviewer |-> u]

\* Positions of token kind k in reply s.
Positions(s, k) == {i \in 1..Len(s) : s[i].kind = k}

Min(S) == CHOOSE x \in S : \A y \in S : x <= y
Max(S) == CHOOSE x \in S : \A y \in S : x >= y

\* regexp (?s)\[.*\] FindString: leftmost "[", greedy up to the last "]"
\* after it; "" when there is none.
FindString(s) ==
    IF Positions(s, "[") = {} THEN EmptyString
    ELSE LET i == Min(Positions(s, "["))
             close == {j \in Positions(s, "]") : j > i}
         IN  IF close = {} THEN EmptyString ELSE SubSeq(s, i, Max(close))

\* A pair of an object is <<key, string>>, or <<key, text, "number">> for a
\* JSON number. Value json.Unmarshal stores in the struct field tagged key:
\* the value of the last pair with that key, "" when the key is absent.
FieldValue(fs, key) ==
    LET at == {i \in 1..Len(fs) : fs[i][1] = key}
    IN  IF at = {} THEN "" ELSE fs[Max(at)][2]

\* The reviewer is left at its zero value.
DecodeReviewNoReviewer(o) ==
    Review(FieldValue(o.fields, "title"), FieldValue(o.fields, "body"),
           FieldValue(o.fields, "rating"), "")

DecodeReview(o) ==
    Review(FieldValue(o.fields, "title"), FieldValue(o.fields, "body"),
           FieldValue(o.fields, "rating"), FieldValue(o.fields, "reviewer"))

\* The text is "[" objects separated by commas "]".
WellFormedArray(m) ==
    /\ Len(m) >= 2
    /\ m[1].kind = "[" /\ m[Len(m)].kind = "]"
    /\ LET inner == SubSeq(m, 2, Len(m) - 1)
       IN  \/ inner = << >>
           \/ /\ Len(inner) % 2 = 1
              /\ \A i \in 1..Len(inner) :
                    inner[i].kind = (IF i % 2 = 1 THEN "obj" ELSE ",")

\* Every field of Review is a Go string: a pair that gives one of them a
\* JSON number makes json.Unmarshal return an UnmarshalTypeError.
StringFields(o) ==
    \A i \in 1..Len(o.fields) :
        o.fields[i][1] \in {"title", "body", "rating", "reviewer"}
            => Len(o.fields[i]) = 2

\* json.Unmarshal of the matched text into []Review returns nil.
Decodes(m) ==
    /\ WellFormedArray(m)
    /\ \A i \in 1..Len(m) : m[i].kind = "obj" => StringFields(m[i])

Unmarshal(m) ==
    LET inner == SubSeq(m, 2, Len(m) - 1)
        objs == SelectSeq(inner, LAMBDA t : t.kind = "obj")
    IN  [i \in 1..Len(objs) |-> DecodeReview(objs[i])]

\* What the completion service does with one prompt: an error, or a text.
ServiceError == [err |-> TRUE, text |-> << >>]
ServiceText(s) == [err |-> FALSE, text |-> s]

\* The value the extractor returns: the reviews, the text of the error ("" =
\* nil) and the replies formatted into that error.
Extracted(reviews, err, carried) ==
    [reviews |-> reviews, err |-> err, carried |-> carried]

\* extractReviewDataUsingLLM on the service's answer. The error of a reply
\* without array is made by fmt.Errorf without an argument.
extractReviewDataUsingLLM(answer) ==
    IF answer.err
    THEN Extracted(<< >>, "failed to generate completion", << >>)
    ELSE LET matches == FindString(answer.text)
         IN  IF matches = EmptyString
             THEN Extracted(<< >>, "failed to extract JSON from response", << >>)
             ELSE IF ~Decodes(matches)
             THEN Extracted(<< >>, "failed to parse review JSON", << >>)
             ELSE Extracted(Unmarshal(matches), "", << >>)

\* ------------------------------------------------------------ page markup
\* Markup is modelled by the forest of nodes it parses to. An "elem" node is
\* an element with attribute id (id "" = no id attribute); a "text" node is
\* text or another attribute in which the characters id="..." occur (id "" =
\* no such occurrence). answers = what the completion service may answer to
\* the prompt built from the rendering of the subtree rooted at the node.
Elem(id, kids, answers) ==
    [kind |-> "elem", id |-> id, kids |-> kids, answers |-> answers]
Text(id) == [kind |-> "text", id |-> id, kids |-> << >>, answers |-> {}]
NoNode == [kind |-> "nil", id |-> "", kids |-> << >>, answers |-> {}]

\* The nodes of a forest in the order of their opening tags in the text.
RECURSIVE PreOrder(_)
PreOrder(ns) ==
    IF ns = << >> THEN << >>
    ELSE << Head(ns) >> \o PreOrder(Head(ns).kids) \o PreOrder(Tail(ns))

\* The pattern (?i)id=["']([^"'\s]*review[s]?[^"']*)["'] on an id value:
\* the case-insensitive substring test, tabulated over the identifiers
\* that occur in the modelled sites.
MatchesPattern(id) ==
    id \in {"reviews", "Product_Reviews_2", "review-widget", "Review",
            "reviews-p2", "reviews-p3"}

\* FindAllStringSubmatch: the captured id values, in text order.
FindAllStringSubmatch(markup) ==
    LET all == PreOrder(markup)
        hit == SelectSeq(all, LAMBDA n : MatchesPattern(n.id))
    IN  [i \in 1..Len(hit) |-> hit[i].id]

Range(s) == {s[i] : i \in 1..Len(s)}

\* All orders in which a range over a Go map may yield the keys S.
MapOrders(S) ==
    {f \in [1..Cardinality(S) -> S] : \A x \in S : \E i \in DOMAIN f : f[i] = x}

\* findReviewIDs: the matched values collected in a map (duplicates
\* collapse), returned in the unspecified iteration order of that map.
findReviewIDs(markup) == MapOrders(Range(FindAllStringSubmatch(markup)))

\* findReviewIDs of the command-line program (main.go): every matched
\* value is appended, in text order.
findReviewIDs_cli(markup) == FindAllStringSubmatch(markup)

\* extractSectionByID: traverse assigns section and returns from the call
\* on the matching node only, so its children are skipped but the callers'
\* loops go on over the following siblings, and a later match overwrites
\* section.
RECURSIVE traverse(_, _, _)
traverse(ns, id, section) ==
    IF ns = << >> THEN section
    ELSE LET n == Head(ns)
         IN  IF n.kind = "elem" /\ n.id = id
             THEN traverse(Tail(ns), id, n)
             ELSE traverse(Tail(ns), id, traverse(n.kids, id, section))

extractSectionByID(doc, id) == traverse(doc, id, NoNode)

\* ------------------------------------------------------------------- sites
\* What the remote browser shows: a site is a sequence of views; a view has
\* the markup PageSource returns, the nextSelectors (by index) FindElement
\* matches, and the views a click on a matched control and a scroll to the
\* bottom lead to. Get loads view 1.
View(m, c, k, s) == [markup |-> m, controls |-> c, onClick |-> k, onScroll |-> s]

Answer(revs) == ServiceText(<< Txt, LB >> \o revs \o << RB, Txt >>)

\* Three pages: 2 reviews + next, 1 review + next, 0 reviews and no control.
ThreePageSite ==
    << View(<< Elem("reviews", << >>,
                 {Answer(<< ReviewObj("a1", "u1"), Comma, ReviewObj("a2", "u2") >>)}) >>,
            {1}, 2, 1),
       View(<< Elem("reviews-p2", << >>, {Answer(<< ReviewObj("b1", "u3") >>)}) >>,
            {2, 3}, 3, 2),
       View(<< Elem("reviews-p3", << >>, {Answer(<< >>)}) >>, {}, 3, 3) >>

\* One page, no control: three scrolls each reveal more, the fourth none.
ScrollMarkup(k) ==
    << Elem("Review", << >>, {Answer(<< ReviewObj("s", "u1") >>)}) >>
    \o [i \in 1..k |-> Elem("", << >>, {})]

ScrollSite ==
    << View(ScrollMarkup(0), {}, 1, 2), View(ScrollMarkup(1), {}, 2, 3),
       View(ScrollMarkup(2), {}, 3, 4), View(ScrollMarkup(3), {}, 4, 4) >>

\* One static page, no control: a nested section whose extraction may fail
\* in each way, an id that occurs in text only, and two elements with the
\* same id.
MixedSite ==
    << View(<< Elem("nav", << Elem("Product_Reviews_2", << >>,
                                 {ServiceError, ServiceText(<< Txt >>),
                                  ServiceText(<< LB, Txt, RB >>),
                                  ServiceText(<< LB, Num, RB >>),
                                  Answer(<< ReviewObj("p1", "u3") >>)}) >>, {}),
               Text("review-widget"),
               Elem("reviews", << >>, {Answer(<< ReviewObj("m1", "u1") >>)}),
               Elem("reviews", << >>, {Answer(<< ReviewObj("m2", "u2") >>)}) >>,
            {}, 1, 1) >>

\* A document without a root element: PageSource is the empty string.
EmptySite == << View(EmptyString, {}, 1, 1) >>

\* Two pages that both show a control and link to each other.
LoopSite ==
    << View(<< Elem("reviews", << >>, {Answer(<< ReviewObj("l1", "u1") >>)}) >>,
            {3, 5}, 2, 1),
       View(<< Elem("nav", << >>, {}) >>, {4}, 1, 2) >>

\* Two pages without reviews that both show a control and link to each
\* other: nothing accumulates while the traversal goes round.
RingSite ==
    << View(<< Elem("reviews", << >>, {Answer(<< >>)}) >>, {1}, 2, 1),
       View(<< Elem("nav", << >>, {}) >>, {2}, 1, 2) >>

Sites == {"ThreePage", "Scroll", "Mixed", "Empty", "Loop"}

\* The sites of the uncapped traversal.
RingSites == {"Ring", "Empty"}

Views(name) ==
    CASE name = "ThreePage" -> ThreePageSite
      [] name = "Scroll" -> ScrollSite
      [] name = "Mixed" -> MixedSite
      [] name = "Empty" -> EmptySite
      [] name = "Loop" -> LoopSite
      [] name = "Ring" -> RingSite

\* about:blank, shown before the first Get.
BlankView == View(<< Elem("", << >>, {}) >>, {}, 0, 0)

\* ------------------------------------------- inputs of the pure functions
\* What the service answers about the subtree rooted at node p: it tells the
\* nodes of a document apart.
Mark(p) == {Answer(<< ReviewObj(p, "u1") >>)}

IdValues == {"reviews", "Review", "nav"}

\* Documents <A> <B> <C/> </B> <D/> </A> <E/> with every choice of id
\* values; E is an element or text in which id="..." occurs.
Docs ==
    { << Elem(a, << Elem(b, << Elem(c, << >>, Mark("C")) >>, Mark("B")),
                    Elem(d, << >>, Mark("D")) >>, Mark("A")),
         [kind |-> k, id |-> e, kids |-> << >>,
          answers |-> IF k = "elem" THEN Mark("E") ELSE {}] >> :
      a \in IdValues, b \in IdValues, c \in IdValues, d \in IdValues,
      e \in IdValues, k \in {"elem", "text"} }

\* The identifiers looked up: the id values and one no node carries.
Ids == IdValues \cup {"review"}

\* Longest free text (in tokens) before and after the array of a reply, and
\* most objects in the array.
MaxFree == 2
MaxObjs == 2

\* A review object whose rating is a JSON number.
NumericRatingObj(t, u) ==
    Obj(<< <<"title", t>>, <<"body", "text">>, <<"rating", "5", "number">>,
           <<"reviewer", u>> >>)

Objs == {ReviewObj("a1", "u1"), ReviewObj("a2", "u2"), NumericRatingObj("a3", "u3")}

\* All sequences over S of length at most n.
RECURSIVE SeqsUpTo(_, _)
SeqsUpTo(S, n) ==
    IF n = 0 THEN {<< >>}
    ELSE LET shorter == SeqsUpTo(S, n - 1)
         IN  shorter \cup {Append(s, x) : s \in shorter, x \in S}

\* Free text in which brackets may occur.
FreeTexts == SeqsUpTo({Txt, LB, RB}, MaxFree)

\* "[" o1 "," o2 ... "]" for a sequence of objects.
ArrayOf(os) ==
    << LB >> \o [i \in 1..(2 * Len(os) - 1) |->
                    IF i % 2 = 1 THEN os[(i + 1) \div 2] ELSE Comma]
          \o << RB >>

Arrays == {IF os = << >> THEN << LB, RB >> ELSE ArrayOf(os) : os \in SeqsUpTo(Objs, MaxObjs)}

\* Replies of the completion service: free text, with or without an array
\* of objects, a number or nothing between two parts of it.
Replies ==
    {pre \o mid \o post :
        pre \in FreeTexts, mid \in Arrays \cup {<< >>, << Num >>}, post \in FreeTexts}

\* ------------------------------------------------------------------- state
VARIABLES
    site,            \* the site the page parameter names
    reliable,        \* TRUE: no driver call fails unless its element is stale
    listening,       \* main is blocked in app.Listen
    quitCalls,       \* calls of driver.Quit made by ReviewScraper.Close
    browser,         \* view shown by the one driver of the one ReviewScraper
    pc,              \* per request: the call it is about to make
    pageSource,      \* handlePagination: pageSource of the current cycle
    prevPageSource,  \* handlePagination: prevPageSource
    reviewIDs,       \* processPage: reviewIDs
    idx,             \* processPage: position of the range over reviewIDs
    allReviews,      \* ScrapeReviews: allReviews
    sel,             \* handlePagination: position of the range over nextSelectors
    found,           \* handlePagination: found
    nextButton,      \* handlePagination: view the matched element belongs to
    cycles,          \* Processing cycles started by the scrape
    unitFailures,    \* log lines written for skipped sections
    resp,            \* the APIResponse sent
    call,            \* the function applied on its own, "none" in the server
    args,            \* its arguments
    ret              \* what it returned

\* A function applied on its own: arguments and returned value.
unit == << call, args, ret >>

env == << site, reliable, listening, quitCalls, call, args, ret >>
locals == << pageSource, prevPageSource, reviewIDs, idx, allReviews, sel,
             found, nextButton >>
vars == << site, reliable, listening, quitCalls, browser, pc, pageSource,
           prevPageSource, reviewIDs, idx, allReviews, sel, found, nextButton,
           cycles, unitFailures, resp, call, args, ret >>

Args(doc, id, answer) == [doc |-> doc, id |-> id, answer |-> answer]
NoArgs == Args(<< >>, "", ServiceError)
NoReturn ==
    [returned |-> FALSE, ids |-> << >>, section |-> NoNode,
     extracted |-> Extracted(<< >>, "", << >>)]

NoResponse == [sent |-> FALSE, success |-> FALSE, data |-> << >>, error |-> ""]
APIResponse(ok, data, error) ==
    [sent |-> TRUE, success |-> ok, data |-> data, error |-> error]

RECURSIVE Sum(_, _)
Sum(f, S) == IF S = {} THEN 0 ELSE LET x == CHOOSE x \in S : TRUE
                                   IN  f[x] + Sum(f, S \ {x})
TotalCycles == Sum(cycles, Reqs)

CurrentView == IF browser = 0 THEN BlankView ELSE Views(site)[browser]

\* main has run up to app.Listen; the requests to come name one of sites.
Start(sites) ==
    /\ site \in sites
    /\ reliable \in BOOLEAN
    /\ listening = TRUE
    /\ quitCalls = 0
    /\ browser = 0
    /\ pc = [r \in Reqs |-> "idle"]
    /\ pageSource = [r \in Reqs |-> EmptyString]
    /\ prevPageSource = [r \in Reqs |-> EmptyString]
    /\ reviewIDs = [r \in Reqs |-> << >>]
    /\ idx = [r \in Reqs |-> 0]
    /\ allReviews = [r \in Reqs |-> << >>]
    /\ sel = [r \in Reqs |-> 0]
    /\ found = [r \in Reqs |-> FALSE]
    /\ nextButton = [r \in Reqs |-> 0]
    /\ cycles = [r \in Reqs |-> 0]
    /\ unitFailures = [r \in Reqs |-> 0]
    /\ resp = [r \in Reqs |-> NoResponse]
    /\ call = "none" /\ args = NoArgs /\ ret = NoReturn

Init == Start(Sites)

\* The request is inside ScrapeReviews, after its Get.
Using(r) ==
    pc[r] \in {"SetImplicitWaitTimeout", "PageSource", "processPage", "extract",
               "FindElement", "ExecuteScript", "newPageSource", "Click"}

\* The handler's c.JSON: ScrapeReviews has returned (or was not called), its
\* locals are gone.
Respond(r, envelope) ==
    /\ pc' = [pc EXCEPT ![r] = "responded"]
    /\ resp' = [resp EXCEPT ![r] = envelope]
    /\ pageSource' = [pageSource EXCEPT ![r] = EmptyString]
    /\ prevPageSource' = [prevPageSource EXCEPT ![r] = EmptyString]
    /\ reviewIDs' = [reviewIDs EXCEPT ![r] = << >>]
    /\ idx' = [idx EXCEPT ![r] = 0]
    /\ allReviews' = [allReviews EXCEPT ![r] = << >>]
    /\ sel' = [sel EXCEPT ![r] = 0]
    /\ found' = [found EXCEPT ![r] = FALSE]
    /\ nextButton' = [nextButton EXCEPT ![r] = 0]

\* The reviews accumulated so far are returned along with the error.
ReturnErrorPartial(r, error) == Respond(r, APIResponse(FALSE, allReviews[r], error))

\* ScrapeReviews returns (nil, err): the handler answers with the error.
ReturnError(r, error) == Respond(r, APIResponse(FALSE, << >>, error))

\* The handler answers success without the data.
ReturnNoData(r) == Respond(r, APIResponse(TRUE, << >>, ""))

\* ScrapeReviews returns (allReviews, nil).
ReturnReviews(r) == Respond(r, APIResponse(TRUE, allReviews[r], ""))

\* GET /api/reviews arrives (requests are numbered in the order of their
\* arrival): the handler reads the page parameter.
Request(r) ==
    /\ listening /\ pc[r] = "idle"
    /\ \A o \in Reqs : o < r => pc[o] # "idle"
    /\ \E url \in {"", "page"} :
          IF url = ""
          THEN ReturnError(r, "URL parameter 'page' is required")
          ELSE /\ pc' = [pc EXCEPT ![r] = "Get"]
               /\ UNCHANGED << resp, locals >>
    /\ UNCHANGED << env, browser, cycles, unitFailures >>

\* ScrapeReviews: rs.driver.Get(url).
Get(r) ==
    /\ listening /\ pc[r] = "Get"
    /\ \/ /\ browser' = 1
          /\ pc' = [pc EXCEPT ![r] = "SetImplicitWaitTimeout"]
          /\ UNCHANGED << resp, locals >>
       \/ /\ ~reliable
          /\ ReturnError(r, "failed to load page")
          /\ UNCHANGED browser
    /\ UNCHANGED << env, cycles, unitFailures >>

\* ScrapeReviews: rs.driver.SetImplicitWaitTimeout, then handlePagination
\* starts with prevPageSource := "".
SetImplicitWaitTimeout(r) ==
    /\ listening /\ pc[r] = "SetImplicitWaitTimeout"
    /\ \/ /\ pc' = [pc EXCEPT ![r] = "PageSource"]
          /\ prevPageSource' = [prevPageSource EXCEPT ![r] = EmptyString]
          /\ allReviews' = [allReviews EXCEPT ![r] = << >>]
          /\ UNCHANGED << resp, pageSource, reviewIDs, idx, sel, found,
                          nextButton >>
       \/ /\ ~reliable
          /\ ReturnError(r, "failed to set implicit wait")
    /\ UNCHANGED << env, browser, cycles, unitFailures >>

\* handlePagination, top of the loop: rs.driver.PageSource(); n is the
\* number of cycles the scrape has started with this one.
FetchPageSource(r, n) ==
    /\ listening /\ pc[r] = "PageSource"
    /\ \/ /\ pageSource' = [pageSource EXCEPT ![r] = CurrentView.markup]
          /\ pc' = [pc EXCEPT ![r] = "processPage"]
          /\ cycles' = [cycles EXCEPT ![r] = n]
          /\ UNCHANGED << resp, prevPageSource, reviewIDs, idx, allReviews,
                          sel, found, nextButton >>
       \/ /\ ~reliable
          /\ ReturnError(r, "error during pagination: failed to fetch page source")
          /\ UNCHANGED cycles
    /\ UNCHANGED << env, browser, unitFailures >>

\* The cycles are counted, and only MaxCycles of them are explored.
PageSource(r) ==
    /\ TotalCycles < MaxCycles
    /\ FetchPageSource(r, cycles[r] + 1)

\* A cap of one cycle: the second fetch ends the scrape normally.
PageSourceCapped(r) ==
    IF cycles[r] >= 1
    THEN /\ listening /\ pc[r] = "PageSource"
         /\ ReturnReviews(r)
         /\ UNCHANGED << env, browser, cycles, unitFailures >>
    ELSE FetchPageSource(r, cycles[r] + 1)

\* The loop as the code runs it, without any cap: the cycles are not
\* counted, so that the states of an endless traversal are finitely many.
PageSourceUncounted(r) == FetchPageSource(r, cycles[r])

\* The loop over the selectors leaves out the first one.
ToSelectorsFromSecond(r) ==
    /\ pc' = [pc EXCEPT ![r] = "FindElement"]
    /\ sel' = [sel EXCEPT ![r] = 2]
    /\ found' = [found EXCEPT ![r] = FALSE]

\* The selector loop starts: found := false.
ToSelectors(r) ==
    /\ pc' = [pc EXCEPT ![r] = "FindElement"]
    /\ sel' = [sel EXCEPT ![r] = 1]
    /\ found' = [found EXCEPT ![r] = FALSE]

\* processPage, up to the loop over reviewIDs: findReviewIDs, and html.Parse
\* (which cannot fail on a strings.Reader).
processPage(r) ==
    /\ listening /\ pc[r] = "processPage"
    /\ \E ids \in findReviewIDs(pageSource[r]) :
          IF Len(ids) = 0
          THEN /\ ToSelectors(r)
               /\ UNCHANGED << reviewIDs, idx >>
          ELSE /\ reviewIDs' = [reviewIDs EXCEPT ![r] = ids]
               /\ idx' = [idx EXCEPT ![r] = 1]
               /\ pc' = [pc EXCEPT ![r] = "extract"]
               /\ UNCHANGED << sel, found >>
    /\ UNCHANGED << env, browser, cycles, unitFailures, resp, pageSource,
                    prevPageSource, allReviews, nextButton >>

\* The loop over reviewIDs moves on; after the last id processPage returns nil.
NextID(r) ==
    /\ IF idx[r] < Len(reviewIDs[r])
       THEN /\ idx' = [idx EXCEPT ![r] = @ + 1]
            /\ UNCHANGED << pc, reviewIDs, sel, found >>
       ELSE /\ ToSelectors(r)
            /\ reviewIDs' = [reviewIDs EXCEPT ![r] = << >>]
            /\ idx' = [idx EXCEPT ![r] = 0]
    /\ UNCHANGED << resp, pageSource, prevPageSource, nextButton >>

\* A failed unit makes processPage return the error, which ends the scrape.
SkipSectionAbort(r) ==
    /\ unitFailures' = [unitFailures EXCEPT ![r] = @ + 1]
    /\ ReturnError(r, "error during pagination: failed to process page")

\* A failed unit: log.Printf and continue.
SkipSection(r) ==
    /\ unitFailures' = [unitFailures EXCEPT ![r] = @ + 1]
    /\ UNCHANGED allReviews
    /\ NextID(r)

\* allReviews = reviews: the section's reviews replace the accumulated ones.
AssignReviews(r, reviews) ==
    /\ allReviews' = [allReviews EXCEPT ![r] = reviews]
    /\ UNCHANGED unitFailures
    /\ NextID(r)

\* The section's reviews are put in front of the accumulated ones.
PrependReviews(r, reviews) ==
    /\ allReviews' = [allReviews EXCEPT ![r] = reviews \o @]
    /\ UNCHANGED unitFailures
    /\ NextID(r)

\* One aggregator shared by all requests: every scrape's list grows.
AppendReviewsShared(r, reviews) ==
    /\ allReviews' = [o \in Reqs |-> IF o = r \/ Using(o)
                                      THEN allReviews[o] \o reviews
                                      ELSE allReviews[o]]
    /\ UNCHANGED unitFailures
    /\ NextID(r)

\* allReviews = append(allReviews, reviews...)
AppendReviews(r, reviews) ==
    /\ allReviews' = [allReviews EXCEPT ![r] = @ \o reviews]
    /\ UNCHANGED unitFailures
    /\ NextID(r)

\* processPage, one pass of the loop over reviewIDs: extractSectionByID,
\* renderNodeToString, extractReviewDataUsingLLM, append.
extractSection(r) ==
    /\ listening /\ pc[r] = "extract"
    /\ LET section == extractSectionByID(pageSource[r], reviewIDs[r][idx[r]])
       IN  IF section = NoNode
           THEN SkipSection(r)
           ELSE \E answer \in section.answers :
                   LET out == extractReviewDataUsingLLM(answer)
                   IN  IF out.err # ""
                       THEN SkipSection(r)
                       ELSE AppendReviews(r, out.reviews)
    /\ UNCHANGED << env, browser, cycles >>

\* Only the first selector is ever matched.
MatchesFirstSelectorOnly(r) == sel[r] = 1 /\ sel[r] \in CurrentView.controls

\* err == nil for the lookup of the selector the loop is at.
Matches(r) == sel[r] \in CurrentView.controls

\* The loop gives up after the first failed lookup.
ExhaustedAfterFirst(r) == sel[r] >= 1

\* The range over nextSelectors has no further selector.
SelectorsExhausted(r) == sel[r] >= Len(nextSelectors)

\* A comparison with the snapshot taken at the start of the cycle instead.
StagnantSinceCycleStart(r, new) == new = pageSource[r]

\* newPageSource == prevPageSource
Stagnant(r, new) == new = prevPageSource[r]

\* The snapshot of the start of the cycle is kept as the baseline.
BaselineFromCycleStart(r, new) == pageSource[r]

\* prevPageSource = newPageSource
NewBaseline(r, new) == new

\* handlePagination, one pass of the loop over nextSelectors:
\* rs.driver.FindElement(selenium.ByCSSSelector, selector). Any error of
\* the lookup only moves the loop on.
FindElement(r) ==
    /\ listening /\ pc[r] = "FindElement"
    /\ \/ /\ Matches(r)
          /\ found' = [found EXCEPT ![r] = TRUE]
          /\ nextButton' = [nextButton EXCEPT ![r] = browser]
          /\ pc' = [pc EXCEPT ![r] = "Click"]
          /\ UNCHANGED sel
       \/ /\ ~Matches(r) \/ ~reliable
          /\ IF ~SelectorsExhausted(r)
             THEN /\ sel' = [sel EXCEPT ![r] = @ + 1]
                  /\ UNCHANGED pc
             ELSE /\ pc' = [pc EXCEPT ![r] = "ExecuteScript"]
                  /\ UNCHANGED sel
          /\ UNCHANGED << found, nextButton >>
    /\ UNCHANGED << env, browser, cycles, unitFailures, resp, pageSource,
                    prevPageSource, reviewIDs, idx, allReviews >>

\* handlePagination, !found:
\* rs.driver.ExecuteScript("window.scrollTo(0, document.body.scrollHeight);")
ExecuteScript(r) ==
    /\ listening /\ pc[r] = "ExecuteScript"
    /\ \/ /\ browser' = CurrentView.onScroll
          /\ pc' = [pc EXCEPT ![r] = "newPageSource"]
          /\ sel' = [sel EXCEPT ![r] = 0]
          /\ UNCHANGED << resp, pageSource, prevPageSource, reviewIDs, idx,
                          allReviews, found, nextButton >>
       \/ /\ ~reliable
          /\ ReturnError(r, "error during pagination: failed to scroll")
          /\ UNCHANGED browser
    /\ UNCHANGED << env, cycles, unitFailures >>

\* handlePagination, !found, after the sleep: newPageSource, the comparison
\* with prevPageSource, break or continue.
newPageSource(r) ==
    /\ listening /\ pc[r] = "newPageSource"
    /\ \/ IF Stagnant(r, CurrentView.markup)
          THEN ReturnReviews(r)
          ELSE /\ prevPageSource' =
                      [prevPageSource EXCEPT ![r] = NewBaseline(r, CurrentView.markup)]
               /\ pageSource' = [pageSource EXCEPT ![r] = EmptyString]
               /\ pc' = [pc EXCEPT ![r] = "PageSource"]
               /\ UNCHANGED << resp, reviewIDs, idx, allReviews, sel, found,
                               nextButton >>
       \/ /\ ~reliable
          /\ ReturnError(r, "error during pagination: failed to fetch new page source")
    /\ UNCHANGED << env, browser, cycles, unitFailures >>

\* The click starts the comparison afresh: the baseline is cleared.
BaselineClearedByClick(r) == EmptyString

\* The click branch has no assignment to prevPageSource.
BaselineAfterClick(r) == prevPageSource[r]

\* A failed click falls back to the scroll.
ClickFailedScrolls(r) ==
    /\ pc' = [pc EXCEPT ![r] = "ExecuteScript"]
    /\ UNCHANGED << resp, locals >>

\* if err := nextButton.Click(); err != nil: handlePagination returns the
\* error, ScrapeReviews wraps it and returns nil for the reviews.
ClickFailed(r) ==
    ReturnError(r, "error during pagination: failed to click pagination element")

\* handlePagination, found: nextButton.Click(), sleep, next pass of the
\* loop. The click of an element of a view the browser has left may fail.
Click(r) ==
    /\ listening /\ pc[r] = "Click"
    /\ \/ /\ browser' = CurrentView.onClick
          /\ pc' = [pc EXCEPT ![r] = "PageSource"]
          /\ pageSource' = [pageSource EXCEPT ![r] = EmptyString]
          /\ sel' = [sel EXCEPT ![r] = 0]
          /\ found' = [found EXCEPT ![r] = FALSE]
          /\ nextButton' = [nextButton EXCEPT ![r] = 0]
          /\ prevPageSource' = [prevPageSource EXCEPT ![r] = BaselineAfterClick(r)]
          /\ UNCHANGED << resp, reviewIDs, idx, allReviews >>
       \/ /\ ~reliable \/ browser # nextButton[r]
          /\ ClickFailed(r)
          /\ UNCHANGED browser
    /\ UNCHANGED << env, cycles, unitFailures >>

\* main: app.Listen returns and log.Fatal ends the process with os.Exit, so
\* the deferred scraper.Close() does not run; the handlers' goroutines end
\* with the process. Responses already sent stay sent.
ListenReturns ==
    /\ listening
    /\ listening' = FALSE
    /\ pc' = [r \in Reqs |-> IF pc[r] = "responded" THEN "responded" ELSE "exited"]
    /\ pageSource' = [r \in Reqs |-> EmptyString]
    /\ prevPageSource' = [r \in Reqs |-> EmptyString]
    /\ reviewIDs' = [r \in Reqs |-> << >>]
    /\ idx' = [r \in Reqs |-> 0]
    /\ allReviews' = [r \in Reqs |-> << >>]
    /\ sel' = [r \in Reqs |-> 0]
    /\ found' = [r \in Reqs |-> FALSE]
    /\ nextButton' = [r \in Reqs |-> 0]
    /\ UNCHANGED << site, reliable, quitCalls, browser, cycles, unitFailures,
                    resp, unit >>

Next ==
    \/ \E r \in Reqs : Request(r)
    \/ \E r \in Reqs : Get(r)
    \/ \E r \in Reqs : SetImplicitWaitTimeout(r)
    \/ \E r \in Reqs : PageSource(r)
    \/ \E r \in Reqs : processPage(r)
    \/ \E r \in Reqs : extractSection(r)
    \/ \E r \in Reqs : FindElement(r)
    \/ \E r \in Reqs : ExecuteScript(r)
    \/ \E r \in Reqs : newPageSource(r)
    \/ \E r \in Reqs : Click(r)
    \/ ListenReturns

Spec == Init /\ [][Next]_vars

\* ------------------------------------------------- the uncapped traversal
\* The steps of the handler of request r.
Run(r) ==
    \/ Get(r)
    \/ SetImplicitWaitTimeout(r)
    \/ PageSourceUncounted(r)
    \/ processPage(r)
    \/ extractSection(r)
    \/ FindElement(r)
    \/ ExecuteScript(r)
    \/ newPageSource(r)
    \/ Click(r)

NextUncapped ==
    \/ \E r \in Reqs : Request(r)
    \/ \E r \in Reqs : Run(r)
    \/ ListenReturns

\* The Go scheduler runs every goroutine that can run, and every driver call
\* returns (with a value or an error): a handler that has a step to take
\* takes it eventually.
Fairness == \A r \in Reqs : WF_vars(Run(r))

SpecFair == Start(RingSites) /\ [][NextUncapped]_vars /\ Fairness

\* ------------------------------------------- the pure functions on their own
\* No server runs: one function is applied once to arguments of the sets
\* above.
UnitInit ==
    /\ site = "Empty" /\ reliable = TRUE /\ listening = FALSE
    /\ quitCalls = 0 /\ browser = 0
    /\ pc = [r \in Reqs |-> "idle"]
    /\ pageSource = [r \in Reqs |-> EmptyString]
    /\ prevPageSource = [r \in Reqs |-> EmptyString]
    /\ reviewIDs = [r \in Reqs |-> << >>]
    /\ idx = [r \in Reqs |-> 0]
    /\ allReviews = [r \in Reqs |-> << >>]
    /\ sel = [r \in Reqs |-> 0]
    /\ found = [r \in Reqs |-> FALSE]
    /\ nextButton = [r \in Reqs |-> 0]
    /\ cycles = [r \in Reqs |-> 0]
    /\ unitFailures = [r \in Reqs |-> 0]
    /\ resp = [r \in Reqs |-> NoResponse]
    /\ ret = NoReturn
    /\ \/ /\ call \in {"findReviewIDs", "findReviewIDs_cli"}
          /\ \E doc \in Docs : args = Args(doc, "", ServiceError)
       \/ /\ call = "extractSectionByID"
          /\ \E doc \in Docs, id \in Ids : args = Args(doc, id, ServiceError)
       \/ /\ call = "extractReviewDataUsingLLM"
          /\ \E answer \in {ServiceError} \cup {ServiceText(s) : s \in Replies} :
                args = Args(<< >>, "", answer)

Returns(value) ==
    /\ ~ret.returned
    /\ ret' = value
    /\ UNCHANGED << call, args, site, reliable, listening, quitCalls, browser,
                    pc, locals, cycles, unitFailures, resp >>

Call_findReviewIDs ==
    /\ call = "findReviewIDs"
    /\ \E ids \in findReviewIDs(args.doc) :
          Returns([ret EXCEPT !.returned = TRUE, !.ids = ids])

Call_findReviewIDs_cli ==
    /\ call = "findReviewIDs_cli"
    /\ Returns([ret EXCEPT !.returned = TRUE, !.ids = findReviewIDs_cli(args.doc)])

Call_extractSectionByID ==
    /\ call = "extractSectionByID"
    /\ Returns([ret EXCEPT !.returned = TRUE,
                           !.section = extractSectionByID(args.doc, args.id)])

Call_extractReviewDataUsingLLM ==
    /\ call = "extractReviewDataUsingLLM"
    /\ Returns([ret EXCEPT !.returned = TRUE,
                           !.extracted = extractReviewDataUsingLLM(args.answer)])

UnitNext ==
    \/ Call_findReviewIDs
    \/ Call_findReviewIDs_cli
    \/ Call_extractSectionByID
    \/ Call_extractReviewDataUsingLLM

SpecUnit == UnitInit /\ [][UnitNext]_vars

\* ------------------------------------------------------------------ claims
MissingPage == "URL parameter 'page' is required"

\* The request's ScrapeReviews call has returned.
Scraped(r) == pc[r] = "responded" /\ resp[r].error # MissingPage

\* ScrapeReviews returned (allReviews, nil): the engine reached Done.
Done(r) == pc[r] = "responded" /\ resp[r].success

\* No other request has arrived.
Solo(r) == \A o \in Reqs \ {r} : pc[o] = "idle"

\* C1: scrapes in progress at the same time never use the same browser
\* session (every request uses the driver of the one ReviewScraper), and the
\* first markup a scrape processes is the markup of the page it navigated to.
C1_ExclusiveSession ==
    \A r \in Reqs :
        /\ \A o \in Reqs \ {r} : ~(Using(r) /\ Using(o))
        /\ pc[r] = "processPage" /\ cycles[r] = 1
              => pageSource[r] = Views(site)[1].markup

\* C2: when a scrape has ended, in Done or with an error, Close (driver.Quit)
\* has been called exactly once on the session it used.
C2_CloseOncePerScrape == \A r \in Reqs : Scraped(r) => quitCalls = 1

\* C3: whenever the scroll fallback starts another Processing cycle, the
\* markup fetched after the scroll differs from the snapshot taken at the
\* start of the cycle (an unchanged snapshot ends the scrape in that cycle).
C3_StopWhenCycleUnchanged ==
    [][\A r \in Reqs :
          pc[r] = "newPageSource" /\ pc'[r] = "PageSource"
             => CurrentView.markup # pageSource[r]]_vars

\* C4 as stated: Done needs a previous scroll fetch of the same scrape that
\* equals the new one, so a scrape is never Done in its first cycle.
C4_DoneNeedsPreviousScroll == \A r \in Reqs : Done(r) => cycles[r] > 1

\* C4 amended: after a scroll the engine is Done exactly when the fetched
\* markup equals the retained baseline (the markup fetched after the
\* scrape's previous scroll, the empty string before its first scroll);
\* otherwise it starts another cycle with the fetched markup as baseline;
\* Done is reached from no other step.
C4_DoneIffBaselineRepeats ==
    [][\A r \in Reqs :
          /\ pc[r] = "newPageSource" /\ pc'[r] = "responded" /\ resp'[r].success
                => /\ CurrentView.markup = prevPageSource[r]
                   /\ resp'[r].data = allReviews[r]
          /\ pc[r] = "newPageSource" /\ pc'[r] = "PageSource"
                => /\ CurrentView.markup # prevPageSource[r]
                   /\ prevPageSource'[r] = CurrentView.markup
          /\ pc[r] = "newPageSource" /\ pc'[r] \notin {"newPageSource", "exited"}
                => \/ pc'[r] = "PageSource"
                   \/ pc'[r] = "responded" /\ (resp'[r].success \/ ~reliable)
          /\ pc[r] # "responded" /\ pc'[r] = "responded" /\ resp'[r].success
                => pc[r] = "newPageSource"]_vars

\* A scrape stopped by a repeated scroll fetch after more than one cycle.
C4_Witness == \E r \in Reqs : Done(r) /\ cycles[r] >= 2

\* The view whose markup cycle k of a lone scrape of ThreePageSite processes.
ThreePageCycle(k) == IF k <= 3 THEN k ELSE 3

\* C5: a lone scrape of the 3-page site over a session that does not fail
\* processes pages 1, 2, 3 in this order, clicks the control on pages 1 and
\* 2, scrolls on page 3 only, and ends in Done with the 2 reviews of page 1
\* followed by the 1 review of page 2.
C5_ThreePageSite ==
    site = "ThreePage" /\ reliable /\ Solo(1) =>
        /\ pc[1] \in {"processPage", "extract", "FindElement"}
              => /\ browser = ThreePageCycle(cycles[1])
                 /\ pageSource[1] = ThreePageSite[browser].markup
        /\ pc[1] = "Click" => browser \in {1, 2}
        /\ pc[1] \in {"ExecuteScript", "newPageSource"} => browser = 3
        /\ Scraped(1)
              => /\ Done(1)
                 /\ resp[1].data = << Review("a1", "text", "5 stars", "u1"),
                                      Review("a2", "text", "5 stars", "u2"),
                                      Review("b1", "text", "5 stars", "u3") >>

\* The lone scrape of the 3-page site has returned its three reviews.
C5_Witness ==
    site = "ThreePage" /\ reliable /\ Solo(1) /\ Done(1) /\ Len(resp[1].data) = 3

\* C6: a lone scrape of the infinite-scroll site over a session that does
\* not fail processes in cycle k the snapshot that k-1 scrolls produced, so
\* each of the distinct snapshots once, and is Done after the fourth scroll
\* (the fourth cycle), with one review per processed snapshot.
C6_ScrollSite ==
    site = "Scroll" /\ reliable /\ Solo(1) =>
        /\ pc[1] \in {"processPage", "extract", "FindElement", "ExecuteScript"}
              => /\ pageSource[1] = ScrollMarkup(cycles[1] - 1)
                 /\ \A k \in 0..3 : k # cycles[1] - 1 => pageSource[1] # ScrollMarkup(k)
        /\ pc[1] = "Click" => FALSE
        /\ Scraped(1)
              => /\ Done(1)
                 /\ cycles[1] = 4
                 /\ resp[1].data = [i \in 1..4 |-> Review("s", "text", "5 stars", "u1")]

\* The lone scrape of the infinite-scroll site is Done.
C6_Witness == site = "Scroll" /\ reliable /\ Solo(1) /\ Done(1) /\ cycles[1] = 4

FatalErrors ==
    {"failed to load page", "failed to set implicit wait",
     "error during pagination: failed to fetch page source",
     "error during pagination: failed to scroll",
     "error during pagination: failed to fetch new page source",
     "error during pagination: failed to click pagination element"}

\* C8: a step that logs a unit failure (section not found, service error, no
\* array in the reply, unparseable array) leaves the accumulated reviews as
\* they are and goes on with the next identifier of the page or, after the
\* last one, with the lookup of the pagination controls; it sends no
\* response, and no error response ever reports a failed page processing.
C8_UnitFailureSkipsSection ==
    [][\A r \in Reqs :
          /\ unitFailures'[r] # unitFailures[r]
                => /\ pc[r] = "extract"
                   /\ unitFailures'[r] = unitFailures[r] + 1
                   /\ allReviews'[r] = allReviews[r]
                   /\ resp'[r] = resp[r]
                   /\ IF idx[r] < Len(reviewIDs[r])
                      THEN /\ pc'[r] = "extract"
                           /\ idx'[r] = idx[r] + 1
                           /\ reviewIDs'[r] = reviewIDs[r]
                      ELSE pc'[r] = "FindElement" /\ sel'[r] = 1
          /\ resp'[r].sent /\ ~resp'[r].success
                => resp'[r].error \in FatalErrors \cup {MissingPage}]_vars

\* A scrape that skipped a failed section is Done with reviews of others.
C8_Witness ==
    \E r \in Reqs :
        site = "Mixed" /\ Done(r) /\ unitFailures[r] >= 1 /\ resp[r].data # << >>

\* The error ScrapeReviews returns when the driver call at pc fails.
ErrorAt(at) ==
    CASE at = "Get" -> "failed to load page"
      [] at = "PageSource" -> "error during pagination: failed to fetch page source"
      [] at = "ExecuteScript" -> "error during pagination: failed to scroll"
      [] at = "newPageSource" -> "error during pagination: failed to fetch new page source"

\* Any step of request r.
Step(r) ==
    \/ Request(r) \/ Get(r) \/ SetImplicitWaitTimeout(r) \/ PageSource(r)
    \/ processPage(r) \/ extractSection(r) \/ FindElement(r)
    \/ ExecuteScript(r) \/ newPageSource(r) \/ Click(r)

\* C9: a failed Get, PageSource or ExecuteScript ends the scrape in that
\* step with the error of that call and without a change of the browser;
\* the error response carries no reviews; a request that has responded
\* takes no further step (no driver call, no extraction).
C9_FatalErrorAborts ==
    [][\A r \in Reqs :
          /\ pc[r] \in {"Get", "PageSource", "ExecuteScript", "newPageSource"}
             /\ pc'[r] = "responded" /\ ~resp'[r].success
                => resp'[r].error = ErrorAt(pc[r]) /\ browser' = browser
          /\ resp'[r].sent /\ ~resp'[r].success
                => resp'[r].data = << >> /\ resp'[r].error # ""
          /\ pc[r] = "responded"
                => ~Step(r) /\ pc'[r] = "responded" /\ resp'[r] = resp[r]]_vars

\* A lone scrape of the 3-page site failed after the cycle that accumulated
\* the reviews of page 1.
C9_Witness ==
    /\ site = "ThreePage" /\ Solo(1) /\ cycles[1] >= 2
    /\ pc[1] = "responded" /\ ~resp[1].success
    /\ resp[1].error \in {ErrorAt("PageSource"), ErrorAt("ExecuteScript"),
                          ErrorAt("newPageSource")}

\* The distinct values of s in the order of their first occurrence.
RECURSIVE FirstOccurrences(_)
FirstOccurrences(s) ==
    IF s = << >> THEN << >>
    ELSE LET init == FirstOccurrences(SubSeq(s, 1, Len(s) - 1))
             last == s[Len(s)]
         IN  IF last \in Range(init) THEN init ELSE Append(init, last)

\* C10 as stated: within a cycle the sections are processed in the order in
\* which their identifiers occur in the markup.
C10_MarkupOrder ==
    \A r \in Reqs :
        pc[r] = "extract"
           => reviewIDs[r] = FirstOccurrences(FindAllStringSubmatch(pageSource[r]))

\* The review lists the section with identifier id of markup may contribute.
Contributions(markup, id) ==
    LET section == extractSectionByID(markup, id)
    IN  IF section = NoNode THEN {<< >>}
        ELSE {extractReviewDataUsingLLM(a).reviews : a \in section.answers}

\* C10 amended: the identifiers of a cycle are the distinct matched values
\* in the order discovery returned them (any order, not necessarily that of
\* the markup) and are processed in that order; every processed section's
\* reviews are appended, as the extractor returned them, behind everything
\* accumulated before; no other step changes the accumulated reviews, and
\* Done returns them as accumulated.
C10_ProcessingOrder ==
    [][\A r \in Reqs :
          /\ pc'[r] = "extract"
                => /\ Range(reviewIDs'[r]) = Range(FindAllStringSubmatch(pageSource'[r]))
                   /\ Len(reviewIDs'[r]) = Cardinality(Range(reviewIDs'[r]))
          /\ pc[r] = "extract" /\ pc'[r] # "exited"
                => \/ idx'[r] = idx[r] /\ pc'[r] = "extract"
                         /\ allReviews'[r] = allReviews[r]
                   \/ /\ \E revs \in Contributions(pageSource[r], reviewIDs[r][idx[r]]) :
                            allReviews'[r] = allReviews[r] \o revs
                      /\ IF idx[r] < Len(reviewIDs[r])
                         THEN idx'[r] = idx[r] + 1 /\ reviewIDs'[r] = reviewIDs[r]
                         ELSE pc'[r] = "FindElement"
          /\ pc[r] \in {"PageSource", "processPage", "FindElement",
                        "ExecuteScript", "newPageSource", "Click"}
             /\ pc'[r] \notin {"responded", "exited"}
                => allReviews'[r] = allReviews[r]
          /\ Done(r)' /\ ~Done(r) => resp'[r].data = allReviews[r]]_vars

\* A scrape is Done with the review of the section that comes second in the
\* markup in front of the review of the section that comes first.
C10_Witness ==
    \E r \in Reqs :
        /\ site = "Mixed" /\ Done(r) /\ Len(resp[r].data) >= 2
        /\ resp[r].data[1].title = "m2" /\ resp[r].data[2].title = "p1"

\* s is an initial segment of t.
IsPrefix(s, t) == Len(s) <= Len(t) /\ SubSeq(t, 1, Len(s)) = s

\* C11: while a scrape runs, every step leaves its accumulated reviews a
\* prefix of their next value; the list is empty when handlePagination
\* starts; and a step of another request never changes it.
C11_AppendOnlyOwnReviews ==
    [][\A r \in Reqs :
          /\ Using(r) /\ Using(r)' /\ pc[r] # "SetImplicitWaitTimeout"
                => IsPrefix(allReviews[r], allReviews'[r])
          /\ pc[r] = "SetImplicitWaitTimeout" /\ pc'[r] = "PageSource"
                => allReviews'[r] = << >>
          /\ ~Step(r) /\ listening'
                => allReviews'[r] = allReviews[r]]_vars

\* Two scrapes in progress hold different non-empty accumulated lists.
C11_Witness ==
    /\ Using(1) /\ Using(2)
    /\ allReviews[1] # << >> /\ allReviews[2] # << >>
    /\ allReviews[1] # allReviews[2]

\* The function has been applied and has returned.
Returned(f) == call = f /\ ret.returned

\* The first element in document order whose id attribute equals id.
FirstMatch(doc, id) ==
    LET hit == SelectSeq(PreOrder(doc), LAMBDA n : n.kind = "elem" /\ n.id = id)
    IN  IF hit = << >> THEN NoNode ELSE hit[1]

\* C12: extractSectionByID returns not-found when no element of the document
\* has an id equal to the identifier, and otherwise the first element in
\* document (depth-first, pre-order) order whose id equals it.
C12_FirstMatchWins ==
    Returned("extractSectionByID")
        => ret.section = FirstMatch(args.doc, args.id)

NoDuplicates(s) == \A i, j \in 1..Len(s) : s[i] = s[j] => i = j

\* C13: the list of identifiers discovery returns for a markup contains no
\* value twice, in the server (findReviewIDs of ReviewScraper) and in the
\* command-line program (findReviewIDs of main.go), so the loop over it
\* processes no identifier twice.
C13_NoDuplicateIDs ==
    Returned("findReviewIDs") \/ Returned("findReviewIDs_cli")
        => NoDuplicates(ret.ids)

\* The discovery of the server alone returns the distinct matched values.
C13_ServerIDsDistinct ==
    Returned("findReviewIDs")
        => /\ NoDuplicates(ret.ids)
           /\ Range(ret.ids) = Range(FindAllStringSubmatch(args.doc))

\* The reply has no "[" that is followed later by a "]".
NoArrayLiteral(s) ==
    ~ \E i \in Positions(s, "["), j \in Positions(s, "]") : i < j

\* C14: for a reply without a bracket-delimited array literal the extractor
\* returns no reviews and the extraction error, and the error carries the
\* raw reply text.
C14_NoArrayErrorCarriesReply ==
    Returned("extractReviewDataUsingLLM")
      /\ ~args.answer.err /\ NoArrayLiteral(args.answer.text)
        => /\ ret.extracted.reviews = << >>
           /\ ret.extracted.err = "failed to extract JSON from response"
           /\ ret.extracted.carried = << args.answer.text >>

\* Without the raw reply the statement holds: no reviews and the extraction
\* error for every reply without array literal.
NoArrayError ==
    Returned("extractReviewDataUsingLLM")
      /\ ~args.answer.err /\ NoArrayLiteral(args.answer.text)
        => /\ ret.extracted.reviews = << >>
           /\ ret.extracted.err = "failed to extract JSON from response"

\* The places <<i, j>> of the well-formed arrays of objects in a reply.
ArraysIn(s) ==
    {p \in (1..Len(s)) \X (1..Len(s)) :
        p[1] < p[2] /\ WellFormedArray(SubSeq(s, p[1], p[2]))}

ExactlyOneArray(s) == Cardinality(ArraysIn(s)) = 1
TheArray(s) == CHOOSE p \in ArraysIn(s) : TRUE

\* The objects between the brackets at place p, in their order.
ObjectsAt(s, p) == SelectSeq(SubSeq(s, p[1], p[2]), LAMBDA t : t.kind = "obj")

\* The value the object gives for key.
Given(o, key) == o.fields[CHOOSE i \in 1..Len(o.fields) : o.fields[i][1] = key][2]

\* The reviews are the objects, in order and field for field.
SameAsObjects(reviews, objs) ==
    /\ Len(reviews) = Len(objs)
    /\ \A i \in 1..Len(objs) :
          /\ reviews[i].title = Given(objs[i], "title")
          /\ reviews[i].body = Given(objs[i], "body")
          /\ reviews[i].rating = Given(objs[i], "rating")
          /\ reviews[i].reviewer = Given(objs[i], "reviewer")

\* C15 as stated: for a reply with exactly one well-formed array of objects
\* with the four fields, whatever text precedes or follows it, the extractor
\* returns without error exactly those objects.
C15_AnyFreeText ==
    Returned("extractReviewDataUsingLLM")
      /\ ~args.answer.err /\ ExactlyOneArray(args.answer.text)
        => /\ ret.extracted.err = ""
           /\ SameAsObjects(ret.extracted.reviews,
                            ObjectsAt(args.answer.text, TheArray(args.answer.text)))

\* C15 amended: the same, provided no "[" occurs before the array, no "]"
\* occurs after it (the match runs from the first "[" of the reply to its
\* last "]"), and the four fields of every object are JSON strings.
C15_NoBracketOutside ==
    Returned("extractReviewDataUsingLLM")
      /\ ~args.answer.err /\ ExactlyOneArray(args.answer.text)
        => LET s == args.answer.text
               p == TheArray(s)
           IN  ( /\ Positions(SubSeq(s, 1, p[1] - 1), "[") = {}
                 /\ Positions(SubSeq(s, p[2] + 1, Len(s)), "]") = {}
                 /\ \A i \in 1..Len(ObjectsAt(s, p)) :
                       StringFields(ObjectsAt(s, p)[i]) )
                 => /\ ret.extracted.err = ""
                    /\ SameAsObjects(ret.extracted.reviews, ObjectsAt(s, p))

\* Two objects between free text that holds a "]" before and a "[" after
\* the array have been extracted.
C15_Witness ==
    /\ Returned("extractReviewDataUsingLLM")
    /\ ~args.answer.err /\ ExactlyOneArray(args.answer.text)
    /\ LET s == args.answer.text
           p == TheArray(s)
       IN  /\ Positions(SubSeq(s, 1, p[1] - 1), "]") # {}
           /\ Positions(SubSeq(s, p[2] + 1, Len(s)), "[") # {}
           /\ Len(ObjectsAt(s, p)) = 2
    /\ ret.extracted.err = "" /\ Len(ret.extracted.reviews) = 2

\* C16: a scrape that has begun eventually ends, in Done or with a fatal
\* error (or, at the latest, with the process).
C16_ScrapeEnds ==
    \A r \in Reqs : pc[r] = "Get" ~> pc[r] \in {"responded", "exited"}

\* C17: the envelope a request is answered with is success=false with the
\* error text and no data when the page parameter is missing (then without
\* any step on the browser, before or after) or when a driver call of the
\* scrape failed, and success=true with the accumulated reviews and no error
\* otherwise; the step that processes a section, failed or not, sends no
\* response.
C17_Envelope ==
    [][\A r \in Reqs :
          /\ ~resp[r].sent /\ resp'[r].sent
                => IF pc[r] = "idle"
                   THEN /\ resp'[r] = APIResponse(FALSE, << >>, MissingPage)
                        /\ browser' = browser
                   ELSE \/ resp'[r] = APIResponse(TRUE, allReviews[r], "")
                        \/ /\ resp'[r].error \in FatalErrors
                           /\ resp'[r] = APIResponse(FALSE, << >>, resp'[r].error)
          /\ resp[r].sent => resp'[r] = resp[r] /\ ~Step(r)
          /\ pc[r] = "extract" => resp'[r] = resp[r]]_vars

\* The first request had no page parameter; the second one skipped a failed
\* section and was answered with success and the reviews of the others.
C17_Witness ==
    /\ resp[1] = APIResponse(FALSE, << >>, MissingPage)
    /\ resp[2].sent /\ resp[2].success /\ resp[2].data # << >>
    /\ unitFailures[2] >= 1

\* C18: the lookups of a cycle start with the first selector and go on with
\* the next one of the list after each lookup that found nothing; a lookup
\* that matches ends the loop, and the element it found is the one the click
\* is sent to; a lookup that fails sends no response; and in a lone scrape
\* over a session that does not fail the selector that matched is the
\* earliest one of the list that matches on the page.
C18_SelectorOrder ==
    [][\A r \in Reqs :
          /\ pc[r] # "FindElement" /\ pc'[r] = "FindElement" => sel'[r] = 1
          /\ pc[r] = "FindElement" /\ Step(r)
                => \/ /\ sel[r] \in CurrentView.controls
                      /\ pc'[r] = "Click" /\ found'[r]
                      /\ sel'[r] = sel[r] /\ nextButton'[r] = browser
                   \/ /\ ~reliable \/ sel[r] \notin CurrentView.controls
                      /\ resp'[r] = resp[r] /\ ~found'[r]
                      /\ IF sel[r] < Len(nextSelectors)
                         THEN pc'[r] = "FindElement" /\ sel'[r] = sel[r] + 1
                         ELSE pc'[r] = "ExecuteScript"
          /\ pc[r] = "Click" /\ Step(r)
                => pc'[r] \in {"PageSource", "responded"}
          /\ pc'[r] = "Click" /\ reliable /\ Solo(r)'
                => sel'[r] = Min(CurrentView.controls)']_vars

\* On a page that matches the third and the fifth selector the lookups of
\* the first two failed and the third matched.
C18_Witness ==
    /\ site = "Loop" /\ reliable /\ Solo(1)
    /\ browser = 1 /\ pc[1] = "Click" /\ sel[1] = 3

\* C19: in the traversal as the code runs it (no cap on the cycles), a
\* scrape becomes Done only in the step after a scroll that compares the
\* fetched markup with the baseline and finds them equal, in a cycle whose
\* lookups found no control; a click that
\* succeeded is followed by the page fetch of another cycle, and that fetch
\* starts the cycle however many went before; so on a site that shows a
\* control on every page a lone scrape over a session that does not fail
\* never scrolls and is never Done.
C19_DoneOnlyByStagnation ==
    [][\A r \in Reqs :
          /\ ~Done(r) /\ Done(r)'
                => /\ pc[r] = "newPageSource" /\ ~found[r]
                   /\ CurrentView.markup = prevPageSource[r]
          /\ pc[r] = "Click" /\ Run(r) /\ pc'[r] # "responded"
                => pc'[r] = "PageSource" /\ browser' = CurrentView.onClick
          /\ pc[r] = "PageSource" /\ Run(r) /\ pc'[r] # "responded"
                => pc'[r] = "processPage" /\ pageSource'[r] = CurrentView.markup
          /\ site = "Ring" /\ reliable /\ Solo(r)'
                => ~Done(r)' /\ pc'[r] \notin {"ExecuteScript", "newPageSource"}]_vars

\* The lone scrape of the ring of two pages has clicked the control of the
\* first page and, a cycle later, found the control of the second.
C19_Witness ==
    /\ site = "Ring" /\ reliable /\ Solo(1)
    /\ browser = 2 /\ nextButton[1] = 2 /\ pc[1] = "Click"
    /\ prevPageSource[1] = EmptyString

ClickError == "error during pagination: failed to click pagination element"

C21_BaselineOnlyByScroll ==
    [][\A r \in Reqs :
          /\ prevPageSource'[r] # prevPageSource[r]
             /\ pc'[r] \notin {"responded", "exited"}
                => /\ pc[r] = "newPageSource" /\ pc'[r] = "PageSource"
                   /\ CurrentView.markup # prevPageSource[r]
                   /\ prevPageSource'[r] = CurrentView.markup
          /\ pc[r] \in {"PageSource", "processPage", "extract", "FindElement",
                        "ExecuteScript", "Click"}
             /\ pc'[r] \notin {"responded", "exited"}
                => prevPageSource'[r] = prevPageSource[r]]_vars

\* A lone scrape of the 3-page site scrolled on page 1 (its lookups failed),
\* then clicked its way to page 3, and is about to compare the markup of
\* page 3 with the baseline recorded on page 1.
C21_Witness ==
    /\ site = "ThreePage" /\ Solo(1)
    /\ browser = 3 /\ pc[1] = "newPageSource"
    /\ prevPageSource[1] = ThreePageSite[1].markup
====
